---- MODULE Spec2Model ----
(***************************************************************************)
(* Model of the course-pilot backend: the per-topic Chroma index           *)
(* (VectorStoreService), the document registry and its deduplication       *)
(* (DocumentService), the upload / delete routes that drive them, and      *)
(* question validation (QAChainService.validate_question).                 *)
(*                                                                         *)
(* Six specifications share the variables:                                 *)
(*   Spec     the routes and the setup ingestion, one request at a time    *)
(*   SpecVS   the public methods of VectorStoreService, called in any order*)
(*   SpecQ    validation of the message of a /chat/message request         *)
(*   SpecQA   the answering engine (QAChainService.ask_question)           *)
(*   SpecChat the chat turn (send_message), one request at a time          *)
(*   SpecPar  VectorStoreService calls in progress side by side            *)
(***************************************************************************)
EXTENDS Integers, Sequences, FiniteSets, TLC

VARIABLES
    index,      \* topic id -> persisted Chroma directory of the topic
    documents,  \* rows of the documents table
    nextId,     \* source of fresh uuid4 values
    disk,       \* files present under the upload folder
    docCount,   \* topic id -> Topic.document_count
    resp,       \* the last request / call and what it returned
    okSum,      \* topic id -> chunks added by an unbroken run of successful create/update, or -1
    calls,      \* number of VectorStoreService calls made (SpecVS)
    faults,     \* embedding failures injected so far (Spec)
    rawMessage, \* the 'message' field of the last /chat/message request
    verdict,    \* what send_message answered about it
    messages,   \* rows of the messages table, oldest first
    attachments,\* files present under uploads/attachments
    qa,         \* the last call of the answering engine and what it returned
    reply,      \* the body of the last /chat/message response
    workers,    \* the VectorStoreService calls in progress (SpecPar)
    solo,       \* topic id -> its directory as it is when only the calls on that topic run (SpecPar)
    sessions    \* session id -> the chat_sessions row (SpecChat, SpecSession)

vars ==
    <<index, documents, nextId, disk, docCount, resp, okSum, calls, faults,
      rawMessage, verdict, messages, attachments, qa, reply, workers, solo, sessions>>

-----------------------------------------------------------------------------
(* Bounds of the model *)

MaxId == 2            \* uuid4 values drawn in one behaviour of Spec
MaxFaults == 1        \* embedding failures injected in one behaviour of Spec
MaxCalls == 3         \* state-changing VectorStoreService calls in one behaviour of SpecVS
MaxFailAt == 2        \* the embedding call of an operation that may fail is one of 1..MaxFailAt
MaxPad == 2           \* whitespace characters around a question
MaxOver == 2          \* how far past a length limit the questions go
MaxDocs == 2          \* chunks a retrieval returns in SpecQA
MaxTurns == 2         \* accepted chat turns in one behaviour of SpecChat
MaxPar == 2           \* VectorStoreService calls started in one behaviour of SpecPar

(* Program constants *)

batch_size == 50
MinQuestionLen == 3
MaxQuestionLen == 1000
DefaultK == 4
ServiceChunkSize == 500
RouteChunkSize == 1000
PreviewLen == 100

-----------------------------------------------------------------------------
(* The world the requests come from *)

Topics == {"T1", "T2"}          \* topics that exist in the database
NoTopic == "T0"                 \* an id no topic has
Users == {"admin", "student"}
Files == {"F1", "F2", "F3", "F4", "F5"}

Role(u) == IF u = "admin" THEN "admin" ELSE "student"

\* F1 and F2 are different bytes with the same text (a re-saved PDF), F3 is a
\* long PDF, F4 a PDF without extractable text, F5 is not a PDF.
FileName(f) == IF f = "F5" THEN "notes.txt" ELSE "lecture.pdf"

Bytes(f) == f

Text(f) ==
    CASE f = "F1" -> "text-A"
      [] f = "F2" -> "text-A"
      [] f = "F3" -> "text-B"
      [] f = "F4" -> ""
      [] OTHER    -> "text-C"

\* Number of chunks CharacterTextSplitter cuts the text into, by chunk size:
\* DocumentService splits at 500 characters, the routes at CHUNK_SIZE = 1000.
ChunkCount(f, chunk_size) ==
    CASE Text(f) = ""       -> 0
      [] Text(f) = "text-A" -> IF chunk_size = ServiceChunkSize THEN 2 ELSE 1
      [] Text(f) = "text-B" -> IF chunk_size = ServiceChunkSize THEN batch_size + 1 ELSE (batch_size \div 2) + 1
      [] OTHER              -> 1

Min(a, b) == IF a < b THEN a ELSE b

-----------------------------------------------------------------------------
(* Chroma: one persisted collection per directory *)

NoVecs == [f \in Files |-> 0]

AbsentIndex == [exists |-> FALSE, vecs |-> NoVecs]

RECURSIVE SumVecs(_, _)
SumVecs(v, S) ==
    IF S = {} THEN 0
    ELSE LET f == CHOOSE x \in S : TRUE IN v[f] + SumVecs(v, S \ {f})

\* collection.count()
CollectionCount(ix) == SumVecs(ix.vecs, Files)

\* The chunk list handed to the service: k chunks cut from file src.
ChunkList(src, n) == [src |-> src, n |-> n]

\* Chroma.from_documents(documents, embedding, persist_directory): opens (and
\* creates, if missing) the directory, embeds the batch, adds it.  When it
\* raises, the directory may or may not have been created already.
from_documents(ix, src, k, fail, dirMade) ==
    IF fail
    THEN [index |-> [ix EXCEPT !.exists = ix.exists \/ dirMade], failed |-> TRUE]
    ELSE [index |-> [exists |-> TRUE, vecs |-> [ix.vecs EXCEPT ![src] = @ + k]],
          failed |-> FALSE]

\* vectorstore.add_documents(documents) on a loaded store: embeds, then adds.
add_documents(ix, src, k, fail) ==
    IF fail
    THEN [index |-> ix, failed |-> TRUE]
    ELSE [index |-> [exists |-> TRUE, vecs |-> [ix.vecs EXCEPT ![src] = @ + k]],
          failed |-> FALSE]

\* shutil.rmtree(topic_persist_dir)
rmtree(ix) == AbsentIndex

-----------------------------------------------------------------------------
(* VectorStoreService *)

\* The batch loop shared by create_topic_index and
\* create_topic_index_with_deduplication: for i in range(0, len, batch_size).
\* loaded says whether vectorstore is not None; failAt is the number of the
\* embedding call that raises (0: none does).
RECURSIVE EmbedBatches(_, _, _, _, _, _)
EmbedBatches(ix, chunks, i, loaded, failAt, dirMade) ==
    IF i >= chunks.n
    THEN [index |-> ix, failed |-> FALSE, calls |-> <<>>]
    ELSE LET k    == Min(batch_size, chunks.n - i)
             fail == failAt = (i \div batch_size) + 1
             r    == IF loaded
                     THEN add_documents(ix, chunks.src, k, fail)
                     ELSE from_documents(ix, chunks.src, k, fail, dirMade)
         IN  IF r.failed
             THEN [index |-> r.index, failed |-> TRUE, calls |-> <<k>>]
             ELSE LET rest == EmbedBatches(r.index, chunks, i + batch_size, TRUE, failAt, dirMade)
                  IN  [index |-> rest.index, failed |-> rest.failed,
                       calls |-> <<k>> \o rest.calls]

topic_index_exists(ix) == ix.exists

\* create_topic_index.  The ValueError for an empty list is raised before
\* topic_persist_dir is bound, so the except clause, which reads it, raises
\* UnboundLocalError in its place; for every other failure the clause removes
\* the directory when it exists.
create_topic_index(ix, chunks, failAt, dirMade) ==
    IF chunks.n = 0
    THEN [index |-> ix, outcome |-> "UnboundLocalError", calls |-> <<>>]
    ELSE LET r == EmbedBatches(ix, chunks, 0, FALSE, failAt, dirMade)
         IN  IF ~r.failed
             THEN [index |-> r.index, outcome |-> "ok", calls |-> r.calls]
             ELSE [index |-> IF r.index.exists THEN rmtree(r.index) ELSE r.index,
                   outcome |-> "CreateFailed", calls |-> r.calls]

\* update_topic_index: one add_documents / from_documents call with the whole
\* list, no check for an empty list, no clean-up.
update_topic_index(ix, chunks, failAt, dirMade) ==
    LET fail == failAt = 1
        r    == IF ix.exists
                THEN add_documents(ix, chunks.src, chunks.n, fail)
                ELSE from_documents(ix, chunks.src, chunks.n, fail, dirMade)
    IN  [index |-> r.index,
         outcome |-> IF r.failed THEN "UpdateFailed" ELSE "ok",
         calls |-> <<chunks.n>>]

\* delete_topic_index: True whether or not the directory existed.
delete_topic_index(ix) ==
    [index |-> IF ix.exists THEN rmtree(ix) ELSE ix, outcome |-> "ok"]

\* A count of the files that contributed vectors instead of the chunks;
\* CountIsChunksEmbedded does not hold with it.
get_topic_document_count_files(ix) ==
    IF ~topic_index_exists(ix) THEN 0
    ELSE Cardinality({f \in Files : ix.vecs[f] > 0})

\* get_topic_document_count: 0 without a directory, else collection.count().
get_topic_document_count(ix) ==
    IF ~topic_index_exists(ix) THEN 0 ELSE CollectionCount(ix)

\* A retriever that opens the store without looking for the directory first,
\* which makes Chroma create it; MissingIndexIsAnError does not hold with it.
get_topic_retriever_unchecked(ix) ==
    [index |-> [ix EXCEPT !.exists = TRUE], outcome |-> "ok"]

\* get_topic_retriever: raises when the directory is missing, otherwise loads
\* the store; nothing is written.
get_topic_retriever(ix) ==
    IF ~ix.exists
    THEN [index |-> ix, outcome |-> "NoVectorStore"]
    ELSE [index |-> ix, outcome |-> "ok"]

\* search_topic_documents: the retriever, then up to k chunks.
search_topic_documents(ix, k) ==
    LET r == get_topic_retriever(ix)
    IN  IF r.outcome # "ok"
        THEN [index |-> r.index, outcome |-> "SearchFailed", hits |-> 0]
        ELSE [index |-> r.index, outcome |-> "ok", hits |-> Min(k, CollectionCount(r.index))]

-----------------------------------------------------------------------------
(* DocumentLoader *)

\* validate_pdf_file: a file with a name that ends in .pdf (the 16 MB limit is
\* enforced by the transport before the route runs).
validate_pdf_file(hasFile, f) == hasFile /\ FileName(f) = "lecture.pdf"

\* A loader that hands back an empty list for a PDF without text instead of
\* raising; NoTextNoIngestion does not hold with it.
load_and_split_pdf_quiet(f, chunk_size) ==
    IF FileName(f) # "lecture.pdf" THEN -1 ELSE ChunkCount(f, chunk_size)

\* load_and_split_pdf: the number of chunks, or -1 when it raises (PyPDFLoader
\* cannot read the file, no pages, no chunks).
load_and_split_pdf(f, chunk_size) ==
    IF FileName(f) # "lecture.pdf" \/ ChunkCount(f, chunk_size) = 0
    THEN -1
    ELSE ChunkCount(f, chunk_size)

-----------------------------------------------------------------------------
(* DocumentService *)

NoDoc ==
    [id |-> 0, topic_id |-> "", file |-> "F1", file_path |-> [kind |-> "none", id |-> 0, topic |-> "T0", file |-> "F1"],
     file_hash |-> <<"sha256", "">>, content_hash |-> <<"sha256", "">>,
     chunk_count |-> 0, is_processed |-> FALSE]

\* calculate_file_hash: SHA-256 of the bytes of the file.
calculate_file_hash(f) == <<"sha256", Bytes(f)>>

\* calculate_content_hash: SHA-256 of the joined chunk texts.
calculate_content_hash(content) == <<"sha256", content>>

\* extract_and_hash_content: hash and chunk count, or raised.
extract_and_hash_content(f) ==
    LET n == load_and_split_pdf(f, ServiceChunkSize)
    IN  IF n < 0
        THEN [raised |-> TRUE, content_hash |-> <<"sha256", "">>, n |-> 0]
        ELSE [raised |-> FALSE, content_hash |-> calculate_content_hash(Text(f)), n |-> n]

\* query.first(): the oldest matching row (ids are drawn in increasing order).
First(S) ==
    IF S = {} THEN NoDoc
    ELSE CHOOSE d \in S : \A e \in S : d.id <= e.id

check_duplicate_by_file_hash(docs, file_hash, topic_id) ==
    First({d \in docs : /\ d.file_hash = file_hash
                        /\ (topic_id # "" => d.topic_id = topic_id)})

\* A content check that never finds a row; NoDuplicateHashes does not hold
\* with it.
check_duplicate_by_content_hash_blind(docs, content_hash, topic_id) == NoDoc

check_duplicate_by_content_hash(docs, content_hash, topic_id) ==
    First({d \in docs : /\ d.content_hash = content_hash
                        /\ (topic_id # "" => d.topic_id = topic_id)})

\* is_document_already_processed: file hash first, then the content hash; an
\* exception while checking counts as "not a duplicate".
is_document_already_processed(docs, f, topic_id) ==
    LET byFile == check_duplicate_by_file_hash(docs, calculate_file_hash(f), topic_id)
        x      == extract_and_hash_content(f)
        byText == check_duplicate_by_content_hash(docs, x.content_hash, topic_id)
    IN  IF byFile # NoDoc /\ byFile.is_processed THEN byFile
        ELSE IF x.raised THEN NoDoc
        ELSE IF byText # NoDoc /\ byText.is_processed THEN byText
        ELSE NoDoc

\* The parameters of create_document_record, and the keyword arguments its two
\* callers pass.  A call with other keywords raises TypeError.
CreateDocumentRecordParams ==
    {"topic_id", "file_path", "original_filename", "uploaded_by", "chunks"}

DedupKwargs ==
    {"topic_id", "file_path", "original_filename", "uploaded_by", "chunks"}

ProcessUploadKwargs ==
    {"filename", "file_path", "file_hash", "content_hash", "topic_id", "uploader_id",
     "file_size"}

CallAccepted(kwargs) == kwargs = CreateDocumentRecordParams

\* create_document_record: the row it commits, already marked processed.
create_document_record(id, topic_id, path, f, n) ==
    [id |-> id, topic_id |-> topic_id, file |-> f, file_path |-> path,
     file_hash |-> calculate_file_hash(f),
     content_hash |-> calculate_content_hash(Text(f)),
     chunk_count |-> n, is_processed |-> TRUE]

\* mark_document_processed
mark_document_processed(docs, id, n) ==
    {IF d.id = id THEN [d EXCEPT !.is_processed = TRUE, !.chunk_count = n] ELSE d : d \in docs}

\* The methods VectorStoreService defines.
VectorStoreMethods ==
    {"create_topic_index", "get_topic_retriever", "update_topic_index",
     "delete_topic_index", "topic_index_exists", "get_topic_document_count",
     "search_topic_documents", "get_all_topic_ids",
     "create_topic_index_with_deduplication"}

-----------------------------------------------------------------------------
(* Responses *)

NoResp ==
    [op |-> "none", topic |-> NoTopic, file |-> "F1", n |-> 0, failAt |-> 0,
     dirMade |-> FALSE, outcome |-> "none", value |-> 0, batches |-> <<>>,
     doc |-> 0, after |-> "other", by |-> "nobody", trail |-> <<>>]

-----------------------------------------------------------------------------
(* Spec: the routes and the setup ingestion, one request at a time *)

\* Stored files: an upload is saved under a name that carries a fresh uuid4;
\* setup.py copies its file to uploads/<topic id>/<name>.
UploadPath(kind, id) == [kind |-> kind, id |-> id, topic |-> NoTopic, file |-> "F1"]

SetupPath(t, f) == [kind |-> "setup", id |-> 0, topic |-> t, file |-> f]

DocsIn(docs, t) == {d \in docs : d.topic_id = t}

Processed(docs, t) == {d \in DocsIn(docs, t) : d.is_processed}

\* What the embedding service does during a request: its failAt-th call raises
\* (0: none), and a from_documents that raises has or has not made the directory.
Failures ==
    {fl \in [failAt : 0..MaxFailAt, dirMade : BOOLEAN] : fl.dirMade => fl.failAt = 1}

\* The failures that can meet a list of n chunks: the call that raises is one
\* of the calls the batch loop makes.
FailuresFor(n) ==
    {fl \in Failures : fl.failAt <= (n + batch_size - 1) \div batch_size}

\* The files sent to a topic: every kind of file to T1; to T2 the two PDFs
\* with the same text.
TopicFiles(t) == IF t = "T1" THEN Files ELSE {"F1", "F2"}

\* Upload requests: the well-formed ones, and one of each kind the routes reject.
UploadRequests ==
    {rq \in [u : {"admin"}, t : Topics, f : Files, hasFile : {TRUE}] : rq.f \in TopicFiles(rq.t)}
    \cup {[u |-> "student", t |-> "T1", f |-> "F1", hasFile |-> TRUE],
          [u |-> "admin", t |-> NoTopic, f |-> "F1", hasFile |-> TRUE],
          [u |-> "admin", t |-> "T1", f |-> "F1", hasFile |-> FALSE]}

\* Delete requests: an admin's for every id and topic, and one of a student.
DeleteDocumentRequests ==
    [u : {"admin"}, id : 1..MaxId] \cup {[u |-> "student", id |-> 1]}

DeleteTopicRequests ==
    [u : {"admin"}, t : Topics \cup {NoTopic}] \cup {[u |-> "student", t |-> "T1"]}

RouteFrame ==
    UNCHANGED <<okSum, calls, rawMessage, verdict, messages, attachments, qa, reply, workers, solo, sessions>>

\* How an upload through the documents route follows the request before it:
\* "same" when that was an accepted upload of the same file through that route
\* to the same topic with no embedding failure, "cross" when it went to
\* another topic.
After(op, t, f) ==
    IF op = "documents_upload" /\ resp.op = op /\ resp.file = f /\ resp.topic \in Topics /\ resp.failAt = 0
    THEN (IF resp.topic = t THEN "same" ELSE "cross")
    ELSE "other"

Answer(op, t, f, outcome, doc, failAt) ==
    [NoResp EXCEPT !.op = op, !.topic = t, !.file = f, !.outcome = outcome,
                   !.doc = doc, !.failAt = failAt, !.after = After(op, t, f)]

\* The answer to a request the route went on with, and the user who sent it.
By(u, answer) == [answer EXCEPT !.by = u]

\* The answer, with the capabilities the request called on its way, in the
\* order of their first call: the lookup by file hash, the extraction of the
\* content, the lookup by content hash, the embedding.
Trail(called, answer) == [answer EXCEPT !.trail = called]

\* A request turned away before the route touched anything: the status alone.
Rejected(outcome) ==
    [NoResp EXCEPT !.op = "rejected", !.outcome = outcome]

\* Checks that leave out the look at the file name;
\* RejectedUploadChangesNothing does not hold with them.
UploadRejection_anyfile(rq) ==
    IF Role(rq.u) # "admin" THEN "403"
    ELSE IF rq.t \notin Topics THEN "404"
    ELSE IF ~rq.hasFile THEN "400-nofile"
    ELSE ""

\* The checks the upload routes make before they touch anything: "" when the
\* request passes.
UploadRejection(rq) ==
    IF Role(rq.u) # "admin" THEN "403"
    ELSE IF rq.t \notin Topics THEN "404"
    ELSE IF ~rq.hasFile THEN "400-nofile"
    ELSE IF ~validate_pdf_file(rq.hasFile, rq.f) THEN "400-notpdf"
    ELSE ""

\* The index of topic t after the route's "create or update" step.
CreateOrUpdate(ix, chunks, fl) ==
    IF topic_index_exists(ix)
    THEN update_topic_index(ix, chunks, fl.failAt, fl.dirMade)
    ELSE create_topic_index(ix, chunks, fl.failAt, fl.dirMade)

\* VectorStoreService.create_topic_index_with_deduplication, as setup.py calls
\* it on a file it has copied under uploads/<topic id>; the copy counts as a
\* stored file from the moment a row points to it.
Ingest(t, f) ==
    /\ nextId <= MaxId
    /\ LET path   == SetupPath(t, f)
           dup    == is_document_already_processed(documents, f, t)
           x      == extract_and_hash_content(f)
           byText == check_duplicate_by_content_hash(documents, x.content_hash, t)
           byFile == check_duplicate_by_file_hash(documents, calculate_file_hash(f), t)
           looked == <<"file_hash", "extract", "content_hash">>
       IN  IF dup # NoDoc
           THEN /\ resp' = Trail(IF byFile # NoDoc /\ byFile.is_processed
                                    THEN <<"file_hash">> ELSE looked,
                                    Answer("ingest", t, f, "duplicate", dup.id, 0))
                /\ UNCHANGED <<index, documents, nextId, disk, faults>>
           ELSE IF x.raised
           THEN /\ resp' = Trail(<<"file_hash", "extract">>,
                                    Answer("ingest", t, f, "error", 0, 0))
                /\ UNCHANGED <<index, documents, nextId, disk, faults>>
           ELSE IF x.n = 0
           THEN /\ resp' = Trail(looked, Answer("ingest", t, f, "no-content", 0, 0))
                /\ UNCHANGED <<index, documents, nextId, disk, faults>>
           ELSE IF byText # NoDoc /\ byText.is_processed
           THEN /\ resp' = Trail(looked, Answer("ingest", t, f, "duplicate", byText.id, 0))
                /\ UNCHANGED <<index, documents, nextId, disk, faults>>
           ELSE \E fl \in FailuresFor(x.n) :
                LET e == EmbedBatches(index[t], ChunkList(f, x.n), 0, index[t].exists,
                                      fl.failAt, fl.dirMade)
                IN  IF e.failed
                    THEN /\ faults < MaxFaults
                         /\ faults' = faults + 1
                         /\ index' = [index EXCEPT ![t] = e.index]
                         /\ resp' = Trail(looked \o <<"embed">>,
                                          Answer("ingest", t, f, "error", 0, fl.failAt))
                         /\ UNCHANGED <<documents, nextId, disk>>
                    ELSE IF ~CallAccepted(DedupKwargs)
                    THEN /\ index' = [index EXCEPT ![t] = e.index]
                         /\ resp' = Trail(looked \o <<"embed">>,
                                          Answer("ingest", t, f, "error", 0, 0))
                         /\ UNCHANGED <<documents, nextId, disk, faults>>
                    ELSE /\ index' = [index EXCEPT ![t] = e.index]
                         /\ documents' = documents \cup
                                           {create_document_record(nextId, t, path, f, x.n)}
                         /\ nextId' = nextId + 1
                         /\ disk' = disk \cup {path}
                         /\ resp' = Trail(looked \o <<"embed">>,
                                          Answer("ingest", t, f, "ok", nextId, 0))
                         /\ UNCHANGED faults
    /\ UNCHANGED docCount
    /\ RouteFrame

\* POST /api/topics/<topic_id>/documents (routes/topics.py): save, split,
\* create or update the index, count the document.  No registry row.
TopicsUpload(rq) ==
    /\ nextId <= MaxId
    /\ LET rej  == UploadRejection(rq)
           path == UploadPath("upload", nextId)
           n    == load_and_split_pdf(rq.f, RouteChunkSize)
       IN  IF rej # ""
           THEN /\ resp' = Rejected(rej)
                /\ UNCHANGED <<index, documents, nextId, disk, docCount, faults>>
           ELSE IF n < 0
           THEN /\ disk' = disk \cup {path}
                /\ nextId' = nextId + 1
                /\ resp' = Trail(<<"extract">>,
                                 By(rq.u, Answer("topics_upload", rq.t, rq.f, "500", 0, 0)))
                /\ UNCHANGED <<index, documents, docCount, faults>>
           ELSE \E fl \in FailuresFor(n) :
                LET r == CreateOrUpdate(index[rq.t], ChunkList(rq.f, n), fl)
                IN  /\ r.outcome # "ok" => faults < MaxFaults
                    /\ faults' = IF r.outcome # "ok" THEN faults + 1 ELSE faults
                    /\ disk' = disk \cup {path}
                    /\ nextId' = nextId + 1
                    /\ index' = [index EXCEPT ![rq.t] = r.index]
                    /\ docCount' = IF r.outcome = "ok"
                                   THEN [docCount EXCEPT ![rq.t] = @ + 1] ELSE docCount
                    /\ resp' = Trail(<<"extract", "embed">>,
                                     By(rq.u, Answer("topics_upload", rq.t, rq.f,
                                        IF r.outcome = "ok" THEN "200" ELSE "500", 0,
                                        IF r.outcome = "ok" THEN 0 ELSE fl.failAt)))
                    /\ UNCHANGED documents
    /\ RouteFrame

\* POST /api/documents/topics/<topic_id> (routes/documents.py) through
\* DocumentService.process_document_upload.
DocumentsUpload(rq) ==
    /\ nextId <= MaxId
    /\ LET rej     == UploadRejection(rq)
           t       == rq.t
           f       == rq.f
           final   == UploadPath("final", nextId)
           byFile  == check_duplicate_by_file_hash(documents, calculate_file_hash(f), t)
           x       == extract_and_hash_content(f)
           byText  == check_duplicate_by_content_hash(documents, x.content_hash, t)
           row     == create_document_record(nextId, t, final, f, x.n)
       IN  IF rej # ""
           THEN /\ resp' = Rejected(rej)
                /\ UNCHANGED <<index, documents, nextId, disk, docCount, faults>>
           ELSE IF byFile # NoDoc
           THEN \* the temporary file is saved and removed again
                /\ nextId' = nextId + 1
                /\ resp' = Trail(<<"file_hash">>,
                      By(rq.u, Answer("documents_upload", t, f, "200-duplicate", byFile.id, 0)))
                /\ UNCHANGED <<index, documents, disk, docCount, faults>>
           ELSE IF x.raised
           THEN /\ nextId' = nextId + 1
                /\ resp' = Trail(<<"file_hash", "extract">>,
                                 By(rq.u, Answer("documents_upload", t, f, "500", 0, 0)))
                /\ UNCHANGED <<index, documents, disk, docCount, faults>>
           ELSE IF byText # NoDoc
           THEN /\ nextId' = nextId + 1
                /\ resp' = Trail(<<"file_hash", "extract", "content_hash">>,
                      By(rq.u, Answer("documents_upload", t, f, "200-duplicate", byText.id, 0)))
                /\ UNCHANGED <<index, documents, disk, docCount, faults>>
           ELSE IF ~CallAccepted(ProcessUploadKwargs)
           THEN \* TypeError after the rename: the renamed file stays
                /\ nextId' = nextId + 1
                /\ disk' = disk \cup {final}
                /\ resp' = Trail(<<"file_hash", "extract", "content_hash">>,
                                 By(rq.u, Answer("documents_upload", t, f, "500", 0, 0)))
                /\ UNCHANGED <<index, documents, docCount, faults>>
           ELSE \E fl \in FailuresFor(x.n) :
                LET r == CreateOrUpdate(index[t], ChunkList(f, x.n), fl)
                IN  /\ r.outcome # "ok" => faults < MaxFaults
                    /\ faults' = IF r.outcome # "ok" THEN faults + 1 ELSE faults
                    /\ nextId' = nextId + 1
                    /\ disk' = disk \cup {final}
                    /\ index' = [index EXCEPT ![t] = r.index]
                    /\ documents' =
                          IF r.outcome = "ok"
                          THEN mark_document_processed(documents \cup {row}, row.id, x.n)
                          ELSE documents \cup {row}
                    /\ docCount' = IF r.outcome = "ok"
                                   THEN [docCount EXCEPT ![t] = @ + 1] ELSE docCount
                    /\ resp' = Trail(<<"file_hash", "extract", "content_hash", "embed">>,
                                     By(rq.u, Answer("documents_upload", t, f,
                                        IF r.outcome = "ok" THEN "200" ELSE "500",
                                        IF r.outcome = "ok" THEN row.id ELSE 0,
                                        IF r.outcome = "ok" THEN 0 ELSE fl.failAt)))
    /\ RouteFrame

\* DELETE /api/documents/<document_id>: the call that should remove the vectors
\* names a method VectorStoreService does not have; the AttributeError is
\* caught and logged.  Then the file, the row and the topic's count.
DeleteDocument(u, id) ==
    /\ LET found == {d \in documents : d.id = id}
           d     == First(found)
           drop  == "remove_document_from_topic" \in VectorStoreMethods
       IN  IF Role(u) # "admin"
           THEN /\ resp' = Rejected("403")
                /\ UNCHANGED <<index, documents, disk, docCount>>
           ELSE IF found = {}
           THEN /\ resp' = Rejected("404")
                /\ UNCHANGED <<index, documents, disk, docCount>>
           ELSE /\ index' = IF d.is_processed /\ drop
                            THEN [index EXCEPT ![d.topic_id].vecs[d.file] = 0]
                            ELSE index
                /\ disk' = disk \ {d.file_path}
                /\ documents' = documents \ {d}
                /\ docCount' = IF docCount[d.topic_id] > 0
                               THEN [docCount EXCEPT ![d.topic_id] = @ - 1] ELSE docCount
                /\ resp' = Answer("delete_document", d.topic_id, d.file,
                                  "200", id, 0)
    /\ UNCHANGED <<nextId, faults>>
    /\ RouteFrame

\* DELETE /api/topics/<topic_id>: removes the index and answers 501; the topic
\* and its documents stay.
DeleteTopic(u, t) ==
    /\ IF Role(u) # "admin"
       THEN /\ resp' = Rejected("403")
            /\ UNCHANGED index
       ELSE IF t \notin Topics
       THEN /\ resp' = Rejected("404")
            /\ UNCHANGED index
       ELSE /\ index' = [index EXCEPT ![t] = delete_topic_index(index[t]).index]
            /\ resp' = Answer("delete_topic", t, "F1", "501", 0, 0)
    /\ UNCHANGED <<documents, nextId, disk, docCount, faults>>
    /\ RouteFrame

-----------------------------------------------------------------------------
(* SpecVS: the methods of VectorStoreService, called in any order *)

ChunkSizes == {0, 1, batch_size, batch_size + 1}

VSFrame ==
    UNCHANGED <<documents, nextId, disk, docCount, faults, rawMessage, verdict,
                messages, attachments, qa, reply, workers, solo, sessions>>

VSCreate(t, n, failAt, dirMade) ==
    /\ calls < MaxCalls
    /\ LET r == create_topic_index(index[t], ChunkList("F1", n), failAt, dirMade)
       IN  /\ index' = [index EXCEPT ![t] = r.index]
           /\ resp' = [NoResp EXCEPT !.op = "create", !.topic = t, !.n = n,
                          !.failAt = failAt, !.dirMade = dirMade,
                          !.outcome = r.outcome, !.batches = r.calls]
           /\ okSum' = [okSum EXCEPT ![t] =
                          IF r.outcome = "ok" /\ ~index[t].exists THEN n ELSE -1]
    /\ calls' = calls + 1
    /\ VSFrame

VSUpdate(t, n, failAt, dirMade) ==
    /\ calls < MaxCalls
    /\ LET r == update_topic_index(index[t], ChunkList("F1", n), failAt, dirMade)
       IN  /\ index' = [index EXCEPT ![t] = r.index]
           /\ resp' = [NoResp EXCEPT !.op = "update", !.topic = t, !.n = n,
                          !.failAt = failAt, !.dirMade = dirMade,
                          !.outcome = r.outcome, !.batches = r.calls]
           /\ okSum' = [okSum EXCEPT ![t] =
                          IF r.outcome = "ok" /\ index[t].exists /\ okSum[t] >= 0
                          THEN okSum[t] + n ELSE -1]
    /\ calls' = calls + 1
    /\ VSFrame

VSDelete(t) ==
    /\ calls < MaxCalls
    /\ LET r == delete_topic_index(index[t])
       IN  /\ index' = [index EXCEPT ![t] = r.index]
           /\ resp' = [NoResp EXCEPT !.op = "delete", !.topic = t,
                          !.outcome = r.outcome]
    /\ okSum' = [okSum EXCEPT ![t] = -1]
    /\ calls' = calls + 1
    /\ VSFrame

VSCount(t) ==
    /\ resp' = [NoResp EXCEPT !.op = "count", !.topic = t,
                   !.outcome = "ok", !.value = get_topic_document_count(index[t])]
    /\ UNCHANGED <<index, okSum, calls>>
    /\ VSFrame

VSRetriever(t) ==
    /\ LET r == get_topic_retriever(index[t])
       IN  /\ index' = [index EXCEPT ![t] = r.index]
           /\ resp' = [NoResp EXCEPT !.op = "retriever", !.topic = t,
                          !.outcome = r.outcome]
    /\ UNCHANGED <<okSum, calls>>
    /\ VSFrame

VSSearch(t, k) ==
    /\ LET r == search_topic_documents(index[t], k)
       IN  /\ index' = [index EXCEPT ![t] = r.index]
           /\ resp' = [NoResp EXCEPT !.op = "search", !.topic = t,
                          !.outcome = r.outcome, !.value = r.hits]
    /\ UNCHANGED <<okSum, calls>>
    /\ VSFrame

-----------------------------------------------------------------------------
(* SpecQ: validation of the message of a /chat/message request *)

\* Characters are "a" and the space.  str.strip() drops the run of whitespace
\* at each end and nothing in between.
IsSpace(c) == c = " "

RECURSIVE lstrip(_)
lstrip(s) == IF s # <<>> /\ IsSpace(Head(s)) THEN lstrip(Tail(s)) ELSE s

RECURSIVE rstrip(_)
rstrip(s) ==
    IF s # <<>> /\ IsSpace(s[Len(s)]) THEN rstrip(SubSeq(s, 1, Len(s) - 1)) ELSE s

strip(s) == rstrip(lstrip(s))

\* An upper limit that leaves out the boundary itself;
\* ValidationBoundaries does not hold with it.
validate_question_exclusive(question) ==
    IF question = <<>> \/ strip(question) = <<>> THEN FALSE
    ELSE IF Len(strip(question)) < MinQuestionLen THEN FALSE
    ELSE IF Len(question) >= MaxQuestionLen THEN FALSE
    ELSE TRUE

\* A validation that only turns away blank questions;
\* InvalidQuestionStoresNothing does not hold with it.
validate_question_nonblank(question) ==
    IF question = <<>> \/ strip(question) = <<>> THEN FALSE ELSE TRUE

\* QAChainService.validate_question: the lower limit is on the stripped text,
\* the upper limit on the text as given.
validate_question(question) ==
    IF question = <<>> \/ strip(question) = <<>> THEN FALSE
    ELSE IF Len(strip(question)) < MinQuestionLen THEN FALSE
    ELSE IF Len(question) > MaxQuestionLen THEN FALSE
    ELSE TRUE

Repeat(c, n) == [i \in 1..n |-> c]

\* n characters, the second one a space when inner asks for it.
Core(n, inner) == [i \in 1..n |-> IF inner /\ i = 2 /\ n >= MinQuestionLen THEN " " ELSE "a"]

CoreLens ==
    (0..(MinQuestionLen + MaxOver))
    \cup ((MaxQuestionLen - MaxOver)..(MaxQuestionLen + MaxOver))

Messages ==
    {Repeat(" ", l) \o Core(n, inner) \o Repeat(" ", r) :
        l \in 0..MaxPad, r \in 0..MaxPad, n \in CoreLens, inner \in BOOLEAN}

\* send_message on a session of the caller: a missing message is answered 400
\* before the session is read; the message is stripped, then validated.
SendMessage(message) ==
    /\ rawMessage' = message
    /\ verdict' = IF message = <<>> THEN "400-missing"
                  ELSE IF ~validate_question(strip(message)) THEN "400-invalid"
                  ELSE "accepted"
    /\ UNCHANGED <<index, documents, nextId, disk, docCount, resp, okSum, calls, faults,
                   messages, attachments, qa, reply, workers, solo, sessions>>

-----------------------------------------------------------------------------
(* SpecQA: the answering engine *)

\* Texts are sequences: of characters for what a user types, of one piece for
\* what the completion or a fixed string supplies.
Apology == <<"I'm sorry, I couldn't generate an answer.">>

\* The page_content of a retrieved chunk: n characters, those past the
\* preview length told apart from those within it.
Content(n) == [i \in 1..n |-> IF i <= PreviewLen THEN "a" ELSE "b"]

ContentLens == {1, PreviewLen - 1, PreviewLen, PreviewLen + 1, PreviewLen + MaxOver}

\* The metadata of a chunk: the keys it has, the 0-based page, the source path
\* as its segments ("" when the key holds the empty string).
Metadatas ==
    {[keys |-> {}, page |-> 0, source |-> <<>>],
     [keys |-> {"page"}, page |-> 0, source |-> <<>>],
     [keys |-> {"page", "source"}, page |-> 11, source |-> <<"uploads", "T1", "lecture.pdf">>],
     [keys |-> {"source"}, page |-> 0, source |-> <<"uploads", "T1", "lecture.pdf">>],
     [keys |-> {"source"}, page |-> 0, source |-> <<>>]}

Chunks == [page_content : {Content(n) : n \in ContentLens}, metadata : Metadatas]

RECURSIVE SeqsUpTo(_, _)
SeqsUpTo(S, n) ==
    IF n = 0 THEN {<<>>}
    ELSE LET shorter == SeqsUpTo(S, n - 1)
         IN  shorter \cup {Append(q, x) : q \in {r \in shorter : Len(r) = n - 1}, x \in S}

\* str(n) for a natural number, one element per digit.
RECURSIVE Str(_)
Str(n) ==
    LET digit == <<"0", "1", "2", "3", "4", "5", "6", "7", "8", "9">>
    IN  IF n < 10 THEN <<digit[n + 1]>>
        ELSE Str(n \div 10) \o <<digit[(n % 10) + 1]>>

\* os.path.basename
basename(source) == IF source = <<>> THEN "" ELSE source[Len(source)]

\* The page_info of _extract_sources: the page wins over the source; a chunk
\* with empty metadata gets neither.
page_info(doc) ==
    IF doc.metadata.keys = {} THEN <<>>
    ELSE IF "page" \in doc.metadata.keys
         THEN <<" (Page ">> \o Str(doc.metadata.page + 1) \o <<")">>
    ELSE IF "source" \in doc.metadata.keys /\ doc.metadata.source # <<>>
         THEN <<" (Source: ", basename(doc.metadata.source), ")">>
    ELSE <<>>

\* A preview that keeps the end of a long text instead of its start;
\* OneCitationPerChunk does not hold with it.
source_text_tail(doc) ==
    IF Len(doc.page_content) > PreviewLen
    THEN SubSeq(doc.page_content, Len(doc.page_content) - PreviewLen + 1,
                Len(doc.page_content)) \o <<"...">>
    ELSE doc.page_content

\* doc.page_content[:100] + "..." if len(doc.page_content) > 100 else doc.page_content
source_text(doc) ==
    IF Len(doc.page_content) > PreviewLen
    THEN SubSeq(doc.page_content, 1, PreviewLen) \o <<"...">>
    ELSE doc.page_content

\* f"Reference {i + 1}{page_info}: {source_text}", i counted from 0
source_ref(i, doc) ==
    <<"Reference ">> \o Str(i + 1) \o page_info(doc) \o <<": ">> \o source_text(doc)

\* QAChainService._extract_sources
extract_sources(source_documents) ==
    [i \in 1..Len(source_documents) |-> source_ref(i - 1, source_documents[i])]

\* What the RetrievalQA chain hands back for a query: it raises, or returns a
\* dict that has or lacks the "result" and "source_documents" keys.
ChainResults(docs) ==
    {[raised |-> TRUE, hasResult |-> FALSE, result |-> <<>>, hasSources |-> FALSE, docs |-> <<>>]}
    \cup [raised : {FALSE}, hasResult : {TRUE}, result : {<<>>, <<"Paris.">>},
          hasSources : BOOLEAN, docs : {docs}]
    \cup [raised : {FALSE}, hasResult : {FALSE}, result : {<<>>},
          hasSources : BOOLEAN, docs : {docs}]

\* QAChainService.ask_question, given what the chain returned:
\* result.get("result", <apology>) and the sources of result["source_documents"].
ask_question(out) ==
    IF out.raised
    THEN [raised |-> TRUE, answer |-> <<>>, sources |-> <<>>]
    ELSE [raised |-> FALSE,
          answer |-> IF out.hasResult THEN out.result ELSE Apology,
          sources |-> IF out.hasSources THEN extract_sources(out.docs) ELSE <<>>]

\* QAChainService.ask_question_with_attachment: the same, the query being the
\* attachment context when there is one.
ask_question_with_attachment(out) == ask_question(out)

NoQA == [state |-> "none"]

\* A call of ask_question or ask_question_with_attachment on what the chain
\* returned.
Ask(withAttachment) ==
    /\ qa.state = "asked"
    /\ LET r == IF withAttachment THEN ask_question_with_attachment(qa.out)
                ELSE ask_question(qa.out)
       IN  qa' = [qa EXCEPT !.state = "answered", !.raised = r.raised,
                            !.answer = r.answer, !.sources = r.sources]
    /\ UNCHANGED <<index, documents, nextId, disk, docCount, resp, okSum, calls, faults,
                   rawMessage, verdict, messages, attachments, reply, workers, solo, sessions>>

-----------------------------------------------------------------------------
(* SpecChat: the chat turn *)

\* Chat sessions in the database: S1 and S2 belong to the caller, S3 to
\* somebody else; the topic of S1 has an index, the topic of S2 has none.
Sessions == {"S1", "S2", "S3"}
NoSession == "S0"               \* an id no session has
Caller == "u1"

SessionOwner(s) == IF s = "S3" THEN "u2" ELSE "u1"

SessionTopic(s) == IF s = "S2" THEN "T2" ELSE "T1"

\* No chat_sessions row at all.
NoSessions == <<>>

\* DatabaseService.create_chat_session: the row of a session.
create_chat_session(user_id, topic_id, title) ==
    [user_id |-> user_id, topic_id |-> topic_id, title |-> title]

NoSessionRow == create_chat_session("nobody", NoTopic, <<>>)

\* DatabaseService.get_chat_session_by_id: the row, or None.
get_chat_session_by_id(ss, session_id) ==
    IF session_id \in DOMAIN ss THEN ss[session_id] ELSE NoSessionRow

\* An ownership check that lets everybody through;
\* NonOwnerChangesNothing does not hold with it.
access_denied_never(session, user_id) == FALSE

\* if session.user_id != user_id: 'Access denied'
access_denied(session, user_id) == session.user_id # user_id

Fallback ==
    <<"I'm sorry, I encountered an error while processing your question. Please try again.">>

\* FileUploadService.ALLOWED_EXTENSIONS
ALLOWED_EXTENSIONS ==
    {".pdf", ".doc", ".docx", ".txt", ".rtf", ".png", ".jpg", ".jpeg", ".gif", ".bmp",
     ".xls", ".xlsx", ".csv", ".ppt", ".pptx"}

\* AttachmentProcessor.SUPPORTED_TYPES (its keys)
SUPPORTED_TYPES ==
    {".pdf", ".txt", ".doc", ".docx", ".xls", ".xlsx", ".ppt", ".pptx", ".csv", ".rtf"}

\* str.lower() on the suffixes that occur
lower(suffix) ==
    CASE suffix = ".PNG" -> ".png"
      [] suffix = ".PDF" -> ".pdf"
      [] OTHER -> suffix

\* The 'attachment' part of the form: none, or a file with a name, the suffix
\* of the name, and whether it is larger than MAX_FILE_SIZE.
NoFile == [filename |-> "", suffix |-> "", big |-> FALSE]

AttachmentFiles ==
    {NoFile}
    \cup [filename : {"notes"}, suffix : {".pdf", ".PNG", ".zip", ""}, big : {FALSE}]
    \cup {[filename |-> "notes", suffix |-> ".PDF", big |-> TRUE]}

\* A check that lets every named file through;
\* OnlyAllowedNonExtractableAccepted does not hold with it.
is_allowed_file_any(file) == file.filename # ""

is_allowed_file(file) ==
    file.filename # "" /\ lower(file.suffix) \in ALLOWED_EXTENSIONS

\* validate_file: "" when the file passes (the content length is not known
\* before the file is saved).
validate_file(file) ==
    IF file.filename = "" THEN "No file provided"
    ELSE IF ~is_allowed_file(file) THEN "File type not allowed"
    ELSE ""

\* save_file: ValueError for a file that does not pass, and for one found too
\* large once saved, which is unlinked again.
save_file(file) ==
    IF validate_file(file) # "" THEN [raised |-> TRUE, saved |-> FALSE]
    ELSE IF file.big THEN [raised |-> TRUE, saved |-> FALSE]
    ELSE [raised |-> FALSE, saved |-> TRUE]

is_supported_file(file) ==
    file.filename # "" /\ lower(file.suffix) \in SUPPORTED_TYPES

\* extract_content, by the kind of 'content' it returns; for a supported type
\* the loader finds text, finds nothing, or raises.
extract_content(file, extraction) ==
    IF ~is_supported_file(file) THEN "not-supported" ELSE extraction

\* message_id = str(uuid.uuid4()): an id no stored row has.
new_message_id(msgs) ==
    IF msgs = <<>> THEN 1
    ELSE 1 + (CHOOSE m \in {msgs[i].id : i \in 1..Len(msgs)} :
                  \A i \in 1..Len(msgs) : msgs[i].id <= m)

\* DatabaseService.create_message: the row it commits.
create_message(id, session_id, sender, message, sources, file) ==
    [id |-> id, session_id |-> session_id, sender |-> sender, message |-> message,
     sources |-> sources, rating |-> "None", attachment |-> file]

\* The response: its status, the attachment the request carried and whether
\* the topic index was asked for a retriever; an accepted turn adds the two
\* rows, the success flag and the attachment content put before the chain.
NoReply == [status |-> "none", file |-> NoFile, queried |-> FALSE]

Refused(status, file) == [NoReply EXCEPT !.status = status, !.file = file]

\* The 'message' fields sent: missing, blank, too short, fine once stripped,
\* too long.
ChatMessages ==
    {<<>>, <<" ", " ">>, <<"a", "b">>, <<" ", "a", "b", "c", " ">>,
     Repeat("a", MaxQuestionLen + 1)}

\* What the retriever of a topic returns for a query.
ChatChunk ==
    [page_content |-> Content(1),
     metadata |-> [keys |-> {"page"}, page |-> 0, source |-> <<>>]]

Retrieved(ix) == [i \in 1..Min(DefaultK, CollectionCount(ix)) |-> ChatChunk]

\* What the model layer does during a turn once the retriever is there: the
\* attachment loader (called for a supported type only) finds text, nothing,
\* or raises; building the chain raises, or the chain is built and returns or
\* raises.  Without a retriever none of it is reached.
AiOutcomes(ix, file) ==
    LET unreached == [raised |-> TRUE, hasResult |-> FALSE, result |-> <<>>,
                      hasSources |-> FALSE, docs |-> <<>>]
        loader    == IF is_supported_file(file) THEN {"text", "no-content", "error"}
                     ELSE {"unused"}
    IN  IF ~ix.exists
        THEN {[chain |-> "unused", extraction |-> "unused", out |-> unreached]}
        ELSE [chain : {"raises"}, extraction : loader, out : {unreached}]
             \cup [chain : {"ok"}, extraction : loader, out : ChainResults(Retrieved(ix))]

\* An except clause that hands the text of the exception to the user;
\* FallbackKeepsTheQuestion does not hold with it.
error_message_detailed(id, session_id) ==
    create_message(id, session_id, "assistant", <<"Failed to load retriever">>, <<>>, NoFile)

\* except Exception as ai_error: the assistant row saved in place of an answer.
error_message(id, session_id) ==
    create_message(id, session_id, "assistant", Fallback, <<>>, NoFile)

\* A turn that keeps the user's row only when the answer came;
\* TwoMessagesPerTurn does not hold with it.
saved_messages_on_success(user, answer, failed) ==
    IF failed THEN <<answer>> ELSE <<user, answer>>

\* The rows an accepted turn commits, in the order of their commits: the user
\* message before the try block, the assistant row at its end or in its
\* except clause.
saved_messages(user, answer, failed) == <<user, answer>>

\* The requests sent: every session id with every message, and for the
\* caller's own sessions every attachment as well.
ChatRequests ==
    [s : Sessions \cup {NoSession, ""}, message : ChatMessages, file : {NoFile}]
    \cup [s : {"S1", "S2"}, message : ChatMessages, file : AttachmentFiles]

\* POST /api/chat/message
ChatTurn(rq) ==
    /\ Len(messages) < 2 * MaxTurns
    /\ rawMessage' = rq.message
    /\ LET s        == rq.s
           file     == rq.file
           question == strip(rq.message)
           id       == new_message_id(messages)
           session  == get_chat_session_by_id(sessions, s)
           saving   == save_file(file)
           user     == create_message(id, s, "user", question, <<>>, file)
           r        == get_topic_retriever(index[session.topic_id])
       IN  IF s = "" \/ rq.message = <<>>
           THEN /\ reply' = Refused("400-missing", file)
                /\ UNCHANGED <<messages, attachments>>
           ELSE IF session = NoSessionRow
           THEN /\ reply' = Refused("404", file)
                /\ UNCHANGED <<messages, attachments>>
           ELSE IF access_denied(session, Caller)
           THEN /\ reply' = Refused("403", file)
                /\ UNCHANGED <<messages, attachments>>
           ELSE IF ~validate_question(question)
           THEN /\ reply' = Refused("400-invalid", file)
                /\ UNCHANGED <<messages, attachments>>
           ELSE IF file # NoFile /\ saving.raised
           THEN /\ reply' = Refused("400-file", file)
                /\ UNCHANGED <<messages, attachments>>
           ELSE \E ai \in AiOutcomes(index[session.topic_id], file) :
                LET content == IF file = NoFile THEN "none"
                               ELSE extract_content(file, ai.extraction)
                    result  == IF content # "none" THEN ask_question_with_attachment(ai.out)
                               ELSE ask_question(ai.out)
                    failed  == r.outcome # "ok" \/ ai.chain = "raises" \/ result.raised
                    answer  == IF failed THEN error_message(id + 1, s)
                               ELSE create_message(id + 1, s, "assistant", result.answer,
                                                   result.sources, NoFile)
                IN  /\ messages' = messages \o saved_messages(user, answer, failed)
                    /\ attachments' = IF file = NoFile THEN attachments
                                      ELSE attachments \cup {[session |-> s, id |-> id]}
                    /\ reply' = [status |-> "200", userMessage |-> user,
                                 aiMessage |-> answer, success |-> ~failed, file |-> file,
                                 queried |-> TRUE,
                                 context |-> IF r.outcome = "ok" THEN content ELSE "none"]
    /\ UNCHANGED <<index, documents, nextId, disk, docCount, resp, okSum, calls, faults,
                   verdict, qa, workers, solo, sessions>>

------------------------------------------------------------------------------------------------------------------------------------------------
(* SpecSession: the routes on a chat session and on its messages *)

\* The users who send requests: the owner of S1 and S2, and the owner of S3.
ChatUsers == {"u1", "u2"}

\* get_session_messages(session_id, limit=100)
MessageLimit == 100

NoRow == create_message(0, NoSession, "nobody", <<>>, <<>>, NoFile)

\* DatabaseService.get_message_by_id: the row, or None.
get_message_by_id(msgs, message_id) ==
    IF \E i \in 1..Len(msgs) : msgs[i].id = message_id
    THEN msgs[CHOOSE i \in 1..Len(msgs) : msgs[i].id = message_id]
    ELSE NoRow

InSession(msgs, session_id) ==
    SelectSeq(msgs, LAMBDA m : m.session_id = session_id)

\* DatabaseService.get_session_messages: the rows of the session, oldest first.
get_session_messages(msgs, session_id) ==
    SubSeq(InSession(msgs, session_id), 1, Min(MessageLimit, Len(InSession(msgs, session_id))))

\* DatabaseService.update_message_rating: message.rating = rating; commit.
update_message_rating(msgs, message_id, rating) ==
    [i \in 1..Len(msgs) |->
        IF msgs[i].id = message_id THEN [msgs[i] EXCEPT !.rating = rating] ELSE msgs[i]]

\* DatabaseService.delete_chat_session: its messages, then the row.
delete_chat_session(msgs, ss, session_id) ==
    [messages |-> SelectSeq(msgs, LAMBDA m : m.session_id # session_id),
     sessions |-> [x \in DOMAIN ss \ {session_id} |-> ss[x]]]

\* What a method named update_chat_session_title would do; DatabaseService
\* defines none.
update_chat_session_title(ss, session_id, title) ==
    [ss EXCEPT ![session_id].title = title]

\* The methods DatabaseService defines for sessions and messages; a call of
\* any other name raises AttributeError.
DatabaseServiceMethods ==
    {"create_chat_session", "get_chat_session_by_id", "get_user_chat_sessions",
     "get_chat_sessions", "delete_chat_session", "create_message", "save_message",
     "get_session_messages", "update_message_rating", "get_message_by_id"}

\* A route that lets any message be rated;
\* OnlyAssistantMessagesRated does not hold with it.
rateable_any(message) == TRUE

\* if message.sender != 'assistant': 'Can only rate AI assistant messages'
rateable(message) == message.sender = "assistant"

\* if rating not in ['positive', 'negative', None]
RatingValues == {"positive", "negative", "None"}

\* The bodies sent with a rating request: no 'rating' field, or one of these.
RatingRequests ==
    {[hasRating |-> FALSE, rating |-> "None"]}
    \cup [hasRating : {TRUE}, rating : RatingValues \cup {"neutral"}]

\* The bodies sent with an update: none, one without a title, a blank title,
\* a title with blanks around it.
TitleRequests ==
    {[given |-> FALSE, hasTitle |-> FALSE, title |-> <<>>],
     [given |-> TRUE, hasTitle |-> FALSE, title |-> <<>>],
     [given |-> TRUE, hasTitle |-> TRUE, title |-> <<" ">>],
     [given |-> TRUE, hasTitle |-> TRUE, title |-> <<" ", "n", " ">>]}

\* The response of a session route: what was asked, by whom, on which session.
SessionReply(status, op, by, session_id) ==
    [status |-> status, op |-> op, by |-> by, session |-> session_id]

\* GET /api/chat/sessions/<session_id>
GetSession(u, s) ==
    /\ calls < MaxCalls
    /\ calls' = calls + 1
    /\ LET session == get_chat_session_by_id(sessions, s)
       IN  reply' = IF session = NoSessionRow THEN SessionReply("404", "get", u, s)
                    ELSE IF access_denied(session, u) THEN SessionReply("403", "get", u, s)
                    ELSE [status |-> "200", op |-> "get", by |-> u, session |-> s,
                          title |-> session.title,
                          body |-> get_session_messages(messages, s)]
    /\ UNCHANGED <<index, documents, nextId, disk, docCount, resp, okSum, faults, rawMessage,
                   verdict, messages, attachments, qa, workers, solo, sessions>>

\* GET /api/chat/sessions/<session_id>/messages
ListMessages(u, s) ==
    /\ calls < MaxCalls
    /\ calls' = calls + 1
    /\ LET session == get_chat_session_by_id(sessions, s)
       IN  reply' = IF session = NoSessionRow THEN SessionReply("404", "list", u, s)
                    ELSE IF access_denied(session, u) THEN SessionReply("403", "list", u, s)
                    ELSE [status |-> "200", op |-> "list", by |-> u, session |-> s,
                          body |-> get_session_messages(messages, s)]
    /\ UNCHANGED <<index, documents, nextId, disk, docCount, resp, okSum, faults, rawMessage,
                   verdict, messages, attachments, qa, workers, solo, sessions>>

\* DELETE /api/chat/sessions/<session_id>: the attachment paths are asked of
\* db_service.get_session_attachment_paths first; then the rows, the
\* attachment files and the directory of the session.  An exception on the
\* way answers 500.
DeleteSession(u, s) ==
    /\ calls < MaxCalls
    /\ calls' = calls + 1
    /\ LET session == get_chat_session_by_id(sessions, s)
           d       == delete_chat_session(messages, sessions, s)
       IN  IF session = NoSessionRow
           THEN /\ reply' = SessionReply("404", "delete", u, s)
                /\ UNCHANGED <<messages, attachments, sessions>>
           ELSE IF access_denied(session, u)
           THEN /\ reply' = SessionReply("403", "delete", u, s)
                /\ UNCHANGED <<messages, attachments, sessions>>
           ELSE IF "get_session_attachment_paths" \notin DatabaseServiceMethods
           THEN /\ reply' = SessionReply("500", "delete", u, s)
                /\ UNCHANGED <<messages, attachments, sessions>>
           ELSE /\ messages' = d.messages
                /\ sessions' = d.sessions
                /\ attachments' = {a \in attachments : a.session # s}
                /\ reply' = SessionReply("200", "delete", u, s)
    /\ UNCHANGED <<index, documents, nextId, disk, docCount, resp, okSum, faults, rawMessage,
                   verdict, qa, workers, solo>>

\* PUT /api/chat/sessions/<session_id>; an exception on the way answers 500.
UpdateTitle(u, s, data) ==
    /\ calls < MaxCalls
    /\ calls' = calls + 1
    /\ LET session == get_chat_session_by_id(sessions, s)
           title   == strip(data.title)
       IN  IF ~data.given
           THEN /\ reply' = SessionReply("400", "title", u, s)
                /\ UNCHANGED sessions
           ELSE IF session = NoSessionRow
           THEN /\ reply' = SessionReply("404", "title", u, s)
                /\ UNCHANGED sessions
           ELSE IF access_denied(session, u)
           THEN /\ reply' = SessionReply("403", "title", u, s)
                /\ UNCHANGED sessions
           ELSE IF ~data.hasTitle \/ title = <<>>
           THEN /\ reply' = SessionReply("400", "title", u, s)
                /\ UNCHANGED sessions
           ELSE IF "update_chat_session_title" \notin DatabaseServiceMethods
           THEN /\ reply' = SessionReply("500", "title", u, s)
                /\ UNCHANGED sessions
           ELSE /\ sessions' = update_chat_session_title(sessions, s, title)
                /\ reply' = SessionReply("200", "title", u, s)
    /\ UNCHANGED <<index, documents, nextId, disk, docCount, resp, okSum, faults, rawMessage,
                   verdict, messages, attachments, qa, workers, solo>>

\* PATCH /api/chat/messages/<message_id>/rating
RateMessage(u, id, data) ==
    /\ calls < MaxCalls
    /\ calls' = calls + 1
    /\ LET message == get_message_by_id(messages, id)
           session == get_chat_session_by_id(sessions, message.session_id)
           asked   == SessionReply("400", "rate", u, message.session_id)
                          @@ [id |-> id,
                              rating |-> IF data.hasRating THEN data.rating ELSE "missing"]
       IN  IF ~data.hasRating \/ data.rating \notin RatingValues
           THEN /\ reply' = asked
                /\ UNCHANGED messages
           ELSE IF message = NoRow
           THEN /\ reply' = [asked EXCEPT !.status = "404"]
                /\ UNCHANGED messages
           ELSE IF session = NoSessionRow \/ access_denied(session, u)
           THEN /\ reply' = [asked EXCEPT !.status = "403"]
                /\ UNCHANGED messages
           ELSE IF ~rateable(message)
           THEN /\ reply' = asked
                /\ UNCHANGED messages
           ELSE /\ messages' = update_message_rating(messages, id, data.rating)
                /\ reply' = [asked EXCEPT !.status = "200"]
    /\ UNCHANGED <<index, documents, nextId, disk, docCount, resp, okSum, faults, rawMessage,
                   verdict, attachments, qa, workers, solo, sessions>>

\* The sessions the requests name: one of the caller's, the one of the other
\* user, and an id no session has.
SessionTargets == {"S2", "S3", NoSession}

\* The turns sent beside the session routes: a fine question to a session,
\* bare or with a PDF.
SessionChatRequests ==
    {rq \in ChatRequests :
        /\ rq.s \in SessionTargets
        /\ rq.message = <<" ", "a", "b", "c", " ">>
        /\ rq.file.suffix \in {"", ".pdf"}}

\* The message ids the rating requests name: those of the stored rows, and
\* one no row has.
MessageIds == {messages[i].id : i \in 1..Len(messages)} \cup {0}

----------
(* SpecPar: VectorStoreService calls in progress side by side *)

\* Two request threads.  Each runs one call at a time, a step of a call being
\* one access to the persist directory: a look at it, one embedding call with
\* its persist, or a removal.
Workers == {"w1", "w2"}

\* The chunks a worker hands over are cut from a file of its own.
WorkerFile(w) == IF w = "w1" THEN "F1" ELSE "F2"

\* The file every concurrent ingestion is given: the same bytes for all.
IngestedFile == "F1"

ParOps == {"create", "update", "upload", "delete", "search", "ingest"}

\* The chunk lists handed over: one batch, and one chunk more than a batch;
\* delete and search take none, and an ingestion cuts its own from the file.
ParSizes(op) ==
    IF op \in {"delete", "search"} THEN {0}
    ELSE IF op = "ingest" THEN {extract_and_hash_content(IngestedFile).n}
    ELSE {1, batch_size + 1}

\* A thread with no call yet.
Idle == [pc |-> "idle"]

Busy(w) == workers[w].pc \notin {"idle", "done"}

\* os.path.join(self.persist_directory, topic_id)
topic_persist_dir_shared(topic_id) == "T1"

topic_persist_dir(topic_id) == topic_id

\* The call of wk has returned or raised: its locals are gone, what it was
\* and how it ended is kept.
Returned(wk, outcome) ==
    [pc |-> "done", op |-> wk.op, topic |-> wk.topic, src |-> wk.src, outcome |-> outcome]

\* The store after the next step of the call of worker record wk, and the
\* record after it.
ParStep(store, wk) ==
    LET dir == topic_persist_dir(wk.topic)
        ix  == store[dir]
    IN  CASE wk.pc = "exists" ->
               \* upload_document: if topic_index_exists(...) update, else create
               [store |-> store,
                wk |-> [wk EXCEPT !.pc = IF topic_index_exists(ix) THEN "check" ELSE "embed",
                                  !.op = IF topic_index_exists(ix) THEN "update" ELSE "create"]]
          [] wk.pc = "check" ->
               \* update_topic_index: if os.path.exists(topic_persist_dir)
               [store |-> store, wk |-> [wk EXCEPT !.pc = "embed", !.loaded = ix.exists]]
          [] wk.pc = "embed" /\ wk.op = "create" ->
               LET k    == Min(batch_size, wk.n - wk.i)
                   fail == wk.failAt = (wk.i \div batch_size) + 1
                   r    == IF wk.loaded THEN add_documents(ix, wk.src, k, fail)
                           ELSE from_documents(ix, wk.src, k, fail, wk.dirMade)
               IN  [store |-> [store EXCEPT ![dir] = r.index],
                    wk |-> IF r.failed THEN [wk EXCEPT !.pc = "cleanup"]
                           ELSE IF wk.i + batch_size >= wk.n
                           THEN Returned(wk, "ok")
                           ELSE [wk EXCEPT !.i = @ + batch_size, !.loaded = TRUE]]
          [] wk.pc = "embed" /\ wk.op = "update" ->
               LET fail == wk.failAt = 1
                   r    == IF wk.loaded THEN add_documents(ix, wk.src, wk.n, fail)
                           ELSE from_documents(ix, wk.src, wk.n, fail, wk.dirMade)
               IN  [store |-> [store EXCEPT ![dir] = r.index],
                    wk |-> Returned(wk, IF r.failed THEN "UpdateFailed" ELSE "ok")]
          [] wk.pc = "load" ->
               \* create_topic_index_with_deduplication:
               \* if os.path.exists(topic_persist_dir): vectorstore = Chroma(...)
               [store |-> store, wk |-> [wk EXCEPT !.pc = "embed", !.loaded = ix.exists]]
          [] wk.pc = "embed" /\ wk.op = "ingest" ->
               \* one turn of its batch loop; a batch that raises ends the call
               \* and nothing is removed
               LET k    == Min(batch_size, wk.n - wk.i)
                   fail == wk.failAt = (wk.i \div batch_size) + 1
                   r    == IF wk.loaded THEN add_documents(ix, wk.src, k, fail)
                           ELSE from_documents(ix, wk.src, k, fail, wk.dirMade)
               IN  [store |-> [store EXCEPT ![dir] = r.index],
                    wk |-> IF r.failed THEN Returned(wk, "IngestFailed")
                           ELSE IF wk.i + batch_size >= wk.n
                           THEN [wk EXCEPT !.pc = "record"]
                           ELSE [wk EXCEPT !.i = @ + batch_size, !.loaded = TRUE]]
          [] wk.pc = "cleanup" ->
               \* except: if os.path.exists(topic_persist_dir): shutil.rmtree(...)
               [store |-> [store EXCEPT ![dir] = IF ix.exists THEN rmtree(ix) ELSE ix],
                wk |-> Returned(wk, "CreateFailed")]
          [] wk.pc = "delete" ->
               [store |-> [store EXCEPT ![dir] = delete_topic_index(ix).index],
                wk |-> Returned(wk, "ok")]
          [] wk.pc = "search" ->
               [store |-> [store EXCEPT ![dir] = search_topic_documents(ix, DefaultK).index],
                wk |-> Returned(wk, search_topic_documents(ix, DefaultK).outcome)]

\* The steps of create_topic_index_with_deduplication that read or write the
\* registry: the registry and the worker record after the step.
RegistrySteps == {"dedup", "recheck", "record"}

RegistryStep(docs, id, wk) ==
    LET x == extract_and_hash_content(wk.src)
    IN  CASE wk.pc = "dedup" ->
               \* is_document_already_processed, then extract_and_hash_content
               LET dup == is_document_already_processed(docs, wk.src, wk.topic)
               IN  [docs |-> docs,
                    wk |-> IF dup # NoDoc THEN Returned(wk, "duplicate")
                           ELSE IF x.raised THEN Returned(wk, "IngestFailed")
                           ELSE IF x.n = 0 THEN Returned(wk, "no-content")
                           ELSE [wk EXCEPT !.pc = "recheck"]]
          [] wk.pc = "recheck" ->
               \* check_duplicate_by_content_hash "one more time"
               LET byText == check_duplicate_by_content_hash(docs, x.content_hash, wk.topic)
               IN  [docs |-> docs,
                    wk |-> IF byText # NoDoc /\ byText.is_processed
                           THEN Returned(wk, "duplicate")
                           ELSE [wk EXCEPT !.pc = "load"]]
          [] wk.pc = "record" ->
               \* create_document_record: session.add, session.commit
               [docs |-> docs \cup {create_document_record(id, wk.topic,
                                        SetupPath(wk.topic, wk.src), wk.src, wk.n)},
                wk |-> Returned(wk, "ok")]

ParFrame ==
    UNCHANGED <<disk, docCount, resp, okSum, faults, rawMessage, verdict,
                messages, attachments, qa, reply, sessions>>

\* A request thread enters a call on topic t.
ParStart(w, op, t, n, fl) ==
    /\ ~Busy(w)
    /\ calls < MaxPar
    /\ op = "ingest" =>
          nextId + Cardinality({v \in Workers : Busy(v) /\ workers[v].op = "ingest"}) <= MaxId
    /\ calls' = calls + 1
    /\ workers' = [workers EXCEPT ![w] =
          [op |-> op, topic |-> t,
           src |-> IF op = "ingest" THEN IngestedFile ELSE WorkerFile(w), n |-> n, i |-> 0,
           loaded |-> FALSE, failAt |-> fl.failAt, dirMade |-> fl.dirMade,
           pc |-> CASE op = "create" -> "embed"
                    [] op = "update" -> "check"
                    [] op = "upload" -> "exists"
                    [] op = "delete" -> "delete"
                    [] op = "search" -> "search"
                    [] op = "ingest" -> "dedup",
           outcome |-> "none"]]
    /\ UNCHANGED <<index, solo, documents, nextId>>
    /\ ParFrame

\* The thread of w takes the next step of its call.
ParRun(w) ==
    /\ Busy(w)
    /\ LET wk == workers[w]
       IN  IF wk.pc \in RegistrySteps
           THEN /\ documents' = RegistryStep(documents, nextId, wk).docs
                /\ nextId' = IF wk.pc = "record" THEN nextId + 1 ELSE nextId
                /\ workers' = [workers EXCEPT ![w] = RegistryStep(documents, nextId, wk).wk]
                /\ UNCHANGED <<index, solo>>
           ELSE /\ index' = ParStep(index, wk).store
                /\ workers' = [workers EXCEPT ![w] = ParStep(index, wk).wk]
                /\ solo' = [solo EXCEPT ![wk.topic] =
                               ParStep([index EXCEPT ![wk.topic] = solo[wk.topic]], wk).store[wk.topic]]
                /\ UNCHANGED <<documents, nextId>>
    /\ UNCHANGED calls
    /\ ParFrame

Init ==
    /\ index = [t \in Topics |-> AbsentIndex]
    /\ documents = {}
    /\ nextId = 1
    /\ disk = {}
    /\ docCount = [t \in Topics |-> 0]
    /\ resp = NoResp
    /\ okSum = [t \in Topics |-> -1]
    /\ calls = 0
    /\ faults = 0
    /\ rawMessage = <<>>
    /\ verdict = "none"
    /\ messages = <<>>
    /\ attachments = {}
    /\ qa = NoQA
    /\ reply = NoReply
    /\ workers = [w \in Workers |-> Idle]
    /\ solo = [t \in Topics |-> AbsentIndex]
    /\ sessions = NoSessions

NextVS ==
    \/ \E t \in Topics, n \in ChunkSizes, failAt \in 0..MaxFailAt, dirMade \in BOOLEAN :
          VSCreate(t, n, failAt, dirMade)
    \/ \E t \in Topics, n \in ChunkSizes, failAt \in 0..MaxFailAt, dirMade \in BOOLEAN :
          VSUpdate(t, n, failAt, dirMade)
    \/ \E t \in Topics : VSDelete(t)
    \/ \E t \in Topics : VSCount(t)
    \/ \E t \in Topics : VSRetriever(t)
    \/ \E t \in Topics, k \in {DefaultK} : VSSearch(t, k)

SpecVS == Init /\ [][NextVS]_vars

NextQ == \E message \in Messages : SendMessage(message)

SpecQ == Init /\ [][NextQ]_vars

Next ==
    \/ \E t \in Topics : \E f \in TopicFiles(t) : Ingest(t, f)
    \/ \E rq \in UploadRequests : TopicsUpload(rq)
    \/ \E rq \in UploadRequests : DocumentsUpload(rq)
    \/ \E rq \in DeleteDocumentRequests : DeleteDocument(rq.u, rq.id)
    \/ \E rq \in DeleteTopicRequests : DeleteTopic(rq.u, rq.t)

Spec == Init /\ [][Next]_vars

\* The answering engine is called with what a chain returned for some
\* retrieval of up to MaxDocs chunks.
InitQA ==
    /\ index = [t \in Topics |-> AbsentIndex]
    /\ documents = {}
    /\ nextId = 1
    /\ disk = {}
    /\ docCount = [t \in Topics |-> 0]
    /\ resp = NoResp
    /\ okSum = [t \in Topics |-> -1]
    /\ calls = 0
    /\ faults = 0
    /\ rawMessage = <<>>
    /\ verdict = "none"
    /\ messages = <<>>
    /\ attachments = {}
    /\ \E docs \in SeqsUpTo(Chunks, MaxDocs) : \E out \in ChainResults(docs) :
          qa = [state |-> "asked", out |-> out, raised |-> FALSE, answer |-> <<>>,
                sources |-> <<>>]
    /\ reply = NoReply
    /\ workers = [w \in Workers |-> Idle]
    /\ solo = [t \in Topics |-> AbsentIndex]
    /\ sessions = NoSessions

NextQA == \E withAttachment \in BOOLEAN : Ask(withAttachment)

SpecQA == InitQA /\ [][NextQA]_vars

\* The chat starts with the material of topic T1 indexed and none for T2.
InitChat ==
    /\ index = [t \in Topics |->
                  IF t = "T1"
                  THEN create_topic_index(AbsentIndex, ChunkList("F1", 2), 0, FALSE).index
                  ELSE AbsentIndex]
    /\ documents = {}
    /\ nextId = 1
    /\ disk = {}
    /\ docCount = [t \in Topics |-> 0]
    /\ resp = NoResp
    /\ okSum = [t \in Topics |-> -1]
    /\ calls = 0
    /\ faults = 0
    /\ rawMessage = <<>>
    /\ verdict = "none"
    /\ messages = <<>>
    /\ attachments = {}
    /\ qa = NoQA
    /\ reply = NoReply
    /\ workers = [w \in Workers |-> Idle]
    /\ solo = [t \in Topics |-> AbsentIndex]
    /\ sessions = [s \in Sessions |->
                     create_chat_session(SessionOwner(s), SessionTopic(s), <<"t">>)]

NextChat == \E rq \in ChatRequests : ChatTurn(rq)

NextPar ==
    \/ \E w \in Workers, op \in ParOps, t \in Topics :
          \E n \in ParSizes(op) : \E fl \in FailuresFor(n) : ParStart(w, op, t, n, fl)
    \/ \E w \in Workers : ParRun(w)

SpecChat == InitChat /\ [][NextChat]_vars

\* The owner of S3 has had one turn in it, with an attachment, and has rated
\* the answer.
InitSession ==
    /\ index = [t \in Topics |->
                  IF t = "T1"
                  THEN create_topic_index(AbsentIndex, ChunkList("F1", 2), 0, FALSE).index
                  ELSE AbsentIndex]
    /\ documents = {}
    /\ nextId = 1
    /\ disk = {}
    /\ docCount = [t \in Topics |-> 0]
    /\ resp = NoResp
    /\ okSum = [t \in Topics |-> -1]
    /\ calls = 0
    /\ faults = 0
    /\ rawMessage = <<>>
    /\ verdict = "none"
    /\ messages = <<create_message(1, "S3", "user", <<"a", "b", "c">>, <<>>,
                                   [filename |-> "notes", suffix |-> ".pdf", big |-> FALSE]),
                    [error_message(2, "S3") EXCEPT !.rating = "positive"]>>
    /\ attachments = {[session |-> "S3", id |-> 1]}
    /\ qa = NoQA
    /\ reply = NoReply
    /\ workers = [w \in Workers |-> Idle]
    /\ solo = [t \in Topics |-> AbsentIndex]
    /\ sessions = [s \in Sessions |->
                     create_chat_session(SessionOwner(s), SessionTopic(s), <<"t">>)]

NextSession ==
    \/ \E rq \in SessionChatRequests : ChatTurn(rq)
    \/ \E u \in ChatUsers, s \in SessionTargets : GetSession(u, s)
    \/ \E u \in ChatUsers, s \in SessionTargets : ListMessages(u, s)
    \/ \E u \in ChatUsers, s \in SessionTargets : DeleteSession(u, s)
    \/ \E u \in ChatUsers, s \in SessionTargets :
          \E data \in TitleRequests : UpdateTitle(u, s, data)
    \/ \E u \in ChatUsers, id \in MessageIds :
          \E data \in RatingRequests : RateMessage(u, id, data)

SpecSession == InitSession /\ [][NextSession]_vars

SpecPar == Init /\ [][NextPar]_vars

-----------------------------------------------------------------------------
(* Properties of Spec *)

Extractable(f) == load_and_split_pdf(f, ServiceChunkSize) > 0

\* C1: an upload of a PDF that directly follows an upload of the same bytes to
\* the same topic is answered as a duplicate that carries the id of the first
\* upload's Document, and the topic holds exactly one processed Document with
\* that file hash.
SecondUploadIsDuplicate ==
    (resp.op = "documents_upload" /\ resp.after = "same" /\ Extractable(resp.file)) =>
        /\ resp.outcome = "200-duplicate"
        /\ \E d \in Processed(documents, resp.topic) : d.id = resp.doc
        /\ Cardinality({d \in Processed(documents, resp.topic) :
                           d.file_hash = calculate_file_hash(resp.file)}) = 1

\* C2: no two processed Documents of a topic have the same file hash, and no
\* two have the same content hash.
NoDuplicateHashes ==
    \A t \in Topics : \A d, e \in Processed(documents, t) :
        d # e => /\ d.file_hash # e.file_hash
                 /\ d.content_hash # e.content_hash

\* A re-saved copy of a processed file (other bytes, same text) was turned
\* away in favour of the Document that holds the text.
ContentDuplicateTurnedAway ==
    /\ resp.op = "ingest" /\ resp.outcome = "duplicate" /\ resp.file = "F2"
    /\ \E d \in Processed(documents, resp.topic) :
          /\ d.id = resp.doc
          /\ d.file = "F1"
          /\ d.content_hash = calculate_content_hash(Text("F2"))

\* C3: an upload of a PDF that directly follows an upload of the same bytes to
\* another topic is not answered as a duplicate; afterwards each of the two
\* topics has a processed Document of the file and an existing index.
CrossTopicUploadsBothStored ==
    (resp.op = "documents_upload" /\ resp.after = "cross" /\ Extractable(resp.file)) =>
        /\ resp.outcome # "200-duplicate"
        /\ \A t \in Topics :
              /\ \E d \in Processed(documents, t) :
                    d.file_hash = calculate_file_hash(resp.file)
              /\ topic_index_exists(index[t])

\* C4: a topic's index exists exactly when the topic has a processed Document.
IndexIffProcessed ==
    \A t \in Topics : topic_index_exists(index[t]) <=> Processed(documents, t) # {}

-----------------------------------------------------------------------------
(* Properties of SpecVS *)

Ran(op, t) == resp'.op = op /\ resp'.topic = t

\* C5: an index comes into being only through a successful create (or update
\* in its place) of a non-empty list, goes away only through delete, and
\* delete answers success and leaves no index whether or not there was one.
IndexStateMachine ==
    [][\A t \in Topics :
          /\ (~index[t].exists /\ index'[t].exists) =>
                /\ Ran("create", t) \/ Ran("update", t)
                /\ resp'.n > 0
                /\ resp'.outcome = "ok"
          /\ (index[t].exists /\ ~index'[t].exists) => Ran("delete", t)
          /\ Ran("delete", t) => resp'.outcome = "ok" /\ ~index'[t].exists]_vars

\* C6: after a create that failed no index exists for the topic, and a create
\* of an empty list fails as EmptyInput.
FailedCreateLeavesNoIndex ==
    (resp.op = "create" /\ resp.outcome # "ok") =>
        /\ ~topic_index_exists(index[resp.topic])
        /\ resp.n = 0 => resp.outcome = "EmptyInput"

\* C7: update on a topic without an index leaves the index create would leave,
\* succeeds exactly when create would, and embeds in the same batches.
UpdateOnAbsentIsCreate ==
    [][\A t \in Topics :
          (Ran("update", t) /\ ~index[t].exists) =>
              LET c == create_topic_index(index[t], ChunkList("F1", resp'.n),
                                          resp'.failAt, resp'.dirMade)
              IN  /\ index'[t] = c.index
                  /\ (resp'.outcome = "ok") <=> (c.outcome = "ok")
                  /\ resp'.batches = c.calls]_vars

MissingIndexIsAnError ==
    [][\A t \in Topics :
          ((Ran("search", t) \/ Ran("retriever", t)) /\ ~index[t].exists) =>
              /\ resp'.outcome \in {"NoVectorStore", "SearchFailed"}
              /\ resp'.value = 0
              /\ index' = index]_vars

\* A search on a topic without an index failed while the other topic has one.
SearchFailedBesideAnIndex ==
    /\ resp.op = "search" /\ resp.outcome = "SearchFailed"
    /\ ~index[resp.topic].exists
    /\ \E t \in Topics : index[t].exists /\ CollectionCount(index[t]) > 0

\* C13: an upload request that is turned away at validation (not an admin,
\* no file, not a PDF) changes nothing: the stored files, the Document rows,
\* the indexes and the document counts are as before; and only an admin's
\* request that carries a PDF for an existing topic gets past validation.
RejectedUploadChangesNothing ==
    [][ /\ resp'.op = "rejected" =>
              /\ disk' = disk
              /\ documents' = documents
              /\ index' = index
              /\ docCount' = docCount
        /\ resp'.op \in {"topics_upload", "documents_upload"} =>
              /\ resp'.by = "admin"
              /\ resp'.topic \in Topics
              /\ resp'.file # "F5"
      ]_vars

\* A file that is not a PDF was turned away after an upload had been stored
\* and indexed.
NonPdfRefusedBesideAnUpload ==
    /\ resp.op = "rejected"
    /\ resp.outcome = "400-notpdf"
    /\ disk # {}
    /\ \E t \in Topics : index[t].exists /\ docCount[t] > 0

\* C14: an upload or ingestion of a PDF from which no text can be extracted
\* (F4) ends in an error, and leaves the Document rows, the indexes and the
\* document counts as they were; no row for the file exists afterwards.
NoTextNoIngestion ==
    [][ (resp'.file = "F4" /\ resp'.op \in {"topics_upload", "documents_upload", "ingest"}) =>
            /\ resp'.outcome \in {"500", "error"}
            /\ documents' = documents
            /\ \A d \in documents' : d.file # "F4"
            /\ index' = index
            /\ docCount' = docCount
      ]_vars

\* The PDF without text was sent to a topic that has an index and a counted
\* document.
NoTextUploadBesideAnIndex ==
    /\ resp.file = "F4"
    /\ resp.op = "topics_upload"
    /\ resp.outcome = "500"
    /\ index[resp.topic].exists
    /\ docCount[resp.topic] > 0

\* C15: when a processed Document is deleted, its row and its stored file are
\* gone afterwards and its vectors have left the index of its topic: the
\* number of chunks in that index is lower by the Document's chunk count.
DeletedDocumentLeavesNoTrace ==
    [][ (resp'.op = "delete_document" /\ resp'.outcome = "200") =>
            \A d \in documents : (d.id = resp'.doc /\ d.is_processed) =>
                /\ \A e \in documents' : e.id # d.id
                /\ d.file_path \notin disk'
                /\ get_topic_document_count(index'[d.topic_id])
                      = get_topic_document_count(index[d.topic_id]) - d.chunk_count
      ]_vars

\* C20: in every state, every Document marked processed has all its chunks
\* in the index of its topic.
ProcessedMeansEmbedded ==
    \A d \in documents :
        d.is_processed =>
            /\ index[d.topic_id].exists
            /\ index[d.topic_id].vecs[d.file] >= d.chunk_count

\* The last request was an ingestion that failed after the content had been
\* extracted and hashed, before its chunks were all embedded and registered.
IngestionFailed(r) ==
    /\ r.op \in {"documents_upload", "ingest"}
    /\ r.outcome \in {"error", "500"}
    /\ Len(r.trail) >= 3

\* C21: a failed ingestion leaves no processed Document for its file, and the
\* retry of the same file to the same topic, right after it, is not turned
\* away as a duplicate: unless the embedding fails again, it succeeds and the
\* topic then holds exactly one processed Document of that file.
RetryAfterFailureSucceeds ==
    [][ /\ IngestionFailed(resp) =>
              ~\E d \in Processed(documents, resp.topic) :
                    d.file_hash = calculate_file_hash(resp.file)
        /\ ( /\ IngestionFailed(resp)
             /\ resp'.op = resp.op /\ resp'.topic = resp.topic
             /\ resp'.file = resp.file ) =>
              /\ resp'.outcome \notin {"duplicate", "200-duplicate"}
              /\ faults' = faults =>
                    /\ resp'.outcome \in {"ok", "200"}
                    /\ resp'.trail[Len(resp'.trail)] = "embed"
                    /\ Cardinality({d \in Processed(documents', resp.topic) :
                                       d.file_hash = calculate_file_hash(resp.file)}) = 1
      ]_vars

\* C22: every upload looks the file hash up first; it extracts the content
\* (and then looks the content hash up) exactly when the file hash matched no
\* processed Document of the topic, and an upload whose file hash matched is
\* turned away as a duplicate with nothing extracted, nothing embedded and
\* the indexes as they were.
FileHashCheckedFirst ==
    [][ resp'.op \in {"topics_upload", "documents_upload", "ingest"} =>
            LET matched == \E d \in Processed(documents, resp'.topic) :
                               d.file_hash = calculate_file_hash(resp'.file)
            IN  /\ resp'.trail # <<>> /\ resp'.trail[1] = "file_hash"
                /\ matched =>
                      /\ resp'.trail = <<"file_hash">>
                      /\ resp'.outcome \in {"duplicate", "200-duplicate"}
                      /\ index' = index
                /\ ~matched =>
                      /\ Len(resp'.trail) >= 2 /\ resp'.trail[2] = "extract"
                      /\ Len(resp'.trail) >= 3 => resp'.trail[3] = "content_hash"
      ]_vars

RECURSIVE SumChunkCount(_)
SumChunkCount(docs) ==
    IF docs = {} THEN 0
    ELSE LET d == CHOOSE d \in docs : TRUE
         IN  d.chunk_count + SumChunkCount(docs \ {d})

\* C27: between requests, the number of chunks in a topic's index (0 when
\* the index is absent) is the sum of chunk_count over the topic's processed
\* Documents.
IndexMatchesRegistry ==
    \A t \in Topics :
        (IF index[t].exists THEN CollectionCount(index[t]) ELSE 0)
            = SumChunkCount(Processed(documents, t))

RECURSIVE SumSeq(_)
SumSeq(q) == IF q = <<>> THEN 0 ELSE Head(q) + SumSeq(Tail(q))

\* C23: a create or an update that succeeds embeds its chunks in batches of
\* at most 50, in order: no embedding call carries more than 50 chunks, the
\* calls together carry each chunk once, and all but the last are full.
BatchesOfAtMostFifty ==
    (resp.op \in {"create", "update"} /\ resp.outcome = "ok") =>
        /\ \A i \in 1..Len(resp.batches) : resp.batches[i] <= 50
        /\ \A i \in 1..(Len(resp.batches) - 1) : resp.batches[i] = 50
        /\ SumSeq(resp.batches) = resp.n

\* C24: when the embedding call of batch j > 1 of a create fails, the chunks
\* of the batches before it are still in the index of the topic afterwards.
PriorBatchesSurviveFailure ==
    (resp.op = "create" /\ resp.outcome # "ok" /\ resp.failAt > 1
        /\ Len(resp.batches) = resp.failAt) =>
        /\ index[resp.topic].exists
        /\ CollectionCount(index[resp.topic]) >= 50 * (resp.failAt - 1)

-----------------------------------------------------------------------------
(* Properties of SpecQ *)

\* Length of the text between the first and the last non-space character.
TrimmedLen(s) ==
    LET ink == {i \in 1..Len(s) : s[i] # " "}
    IN  IF ink = {} THEN 0
        ELSE (CHOOSE i \in ink : \A j \in ink : j <= i)
             - (CHOOSE i \in ink : \A j \in ink : i <= j) + 1

\* C10: a message is accepted as a question exactly when, trimmed, it is not
\* empty and its length is between 3 and 1000 inclusive: 2 is rejected, 3 and
\* 1000 are accepted, 1001 is rejected.
ValidationBoundaries ==
    verdict # "none" =>
        (verdict = "accepted" <=>
            /\ TrimmedLen(rawMessage) >= 3
            /\ TrimmedLen(rawMessage) <= 1000)

\* A question of exactly 1000 characters sent with whitespace around it.
PaddedLongestAccepted ==
    /\ verdict = "accepted"
    /\ TrimmedLen(rawMessage) = 1000
    /\ Len(rawMessage) > 1000

-----------------------------------------------------------------------------
(* Properties of SpecChat *)

\* C11: a chat turn whose question was accepted and whose retrieval, chain or
\* completion fails (as every accepted turn on a session whose topic has no
\* index does) leaves the rows stored before it as they were, appends the
\* user's stripped question and after it exactly one assistant row with the
\* fixed fallback text and no sources, and returns both.
FallbackKeepsTheQuestion ==
    [][ /\ (reply'.status = "200" /\ reply'.userMessage.session_id = "S2") => ~reply'.success
        /\ (reply'.status = "200" /\ ~reply'.success) =>
              LET n == Len(messages)
              IN  /\ Len(messages') = n + 2
                  /\ SubSeq(messages', 1, n) = messages
                  /\ messages'[n + 1] = reply'.userMessage
                  /\ messages'[n + 1].sender = "user"
                  /\ messages'[n + 1].message = <<"a", "b", "c">>
                  /\ messages'[n + 2] = reply'.aiMessage
                  /\ messages'[n + 2].sender = "assistant"
                  /\ messages'[n + 2].session_id = messages'[n + 1].session_id
                  /\ messages'[n + 2].message = Fallback
                  /\ messages'[n + 2].sources = <<>>
      ]_vars

\* A second turn, on the session whose topic is indexed, ended in the fallback.
FallbackAfterEarlierTurn ==
    /\ reply.status = "200"
    /\ ~reply.success
    /\ Len(messages) = 4
    /\ messages[3] = reply.userMessage
    /\ reply.userMessage.session_id = "S1"
    /\ messages[4].message = Fallback

\* Between the first and the last non-space character of s there are fewer
\* than n characters (none when s is blank), respectively more than n.
TrimmedShorter(s, n) ==
    \A i \in 1..Len(s) : s[i] # " " => \A j \in (i + n - 1)..Len(s) : s[j] = " "

TrimmedLonger(s, n) ==
    \E i \in 1..(Len(s) - n) : s[i] # " " /\ \E j \in (i + n)..Len(s) : s[j] # " "

\* C12: a request whose message, trimmed, is empty, shorter than 3 characters
\* or longer than 1000 characters is answered with an error and stores
\* nothing: the message rows, the attachment files and the indexes are as
\* before, and no retriever was asked for.
InvalidQuestionStoresNothing ==
    [][ (TrimmedShorter(rawMessage', 3) \/ TrimmedLonger(rawMessage', 1000)) =>
            /\ reply'.status \in {"400-missing", "400-invalid", "404", "403"}
            /\ messages' = messages
            /\ attachments' = attachments
            /\ index' = index
            /\ ~reply'.queried
      ]_vars

\* A question of two characters sent to the caller's own session with a PDF
\* attached, after an accepted turn.
ShortQuestionWithAttachmentRefused ==
    /\ reply.status = "400-invalid"
    /\ rawMessage = <<"a", "b">>
    /\ reply.file.suffix = ".pdf"
    /\ Len(messages) = 2
    /\ attachments = {}

\* The request carried an attachment whose extension is not one of those
\* content can be extracted from.
NonExtractable(file) == file # NoFile /\ lower(file.suffix) \notin SUPPORTED_TYPES

\* The turn stored the attachment and went on with the placeholder as the
\* attachment content wherever the topic has an index to answer from.
StoredWithPlaceholder ==
    /\ reply'.userMessage.attachment = reply'.file
    /\ [session |-> reply'.userMessage.session_id, id |-> reply'.userMessage.id]
           \in attachments'
    /\ index[SessionTopic(reply'.userMessage.session_id)].exists =>
           reply'.context = "not-supported"

-------------------------------------------------------------------\* C28: an accepted turn appends exactly two rows to its session and touches
\* no earlier row: first the user's stripped message, then one assistant row,
\* which is the fallback when the turn failed; the user's row is there even
\* when no retriever could be obtained.
TwoMessagesPerTurn ==
    [][ reply'.status = "200" =>
            LET n == Len(messages)
            IN  /\ Len(messages') = n + 2
                /\ SubSeq(messages', 1, n) = messages
                /\ messages'[n + 1] = reply'.userMessage
                /\ messages'[n + 1].sender = "user"
                /\ messages'[n + 1].message = strip(rawMessage')
                /\ messages'[n + 2] = reply'.aiMessage
                /\ messages'[n + 2].sender = "assistant"
                /\ messages'[n + 2].session_id = messages'[n + 1].session_id
                /\ ~reply'.success => messages'[n + 2].message = Fallback
      ]_vars

\* A turn in a session whose topic has no index: no retriever, and the
\* user's message is stored with the fallback after it.
TurnWithoutRetriever ==
    /\ reply.status = "200"
    /\ ~reply.success
    /\ ~index[SessionTopic(reply.userMessage.session_id)].exists
    /\ Len(messages) >= 2
    /\ messages[Len(messages) - 1] = reply.userMessage
    /\ messages[Len(messages)].message = Fallback

----------
(* Properties of SpecQA *)

\* C18: the answer of the answering engine is the completion result, or the
\* fixed apology when the completion result is empty or missing; it is never
\* empty.
AnswerNeverEmpty ==
    (qa.state = "answered" /\ ~qa.raised) =>
        /\ qa.answer # <<>>
        /\ qa.answer = IF qa.out.hasResult /\ qa.out.result # <<>> THEN qa.out.result
                       ELSE Apology

\* C19: the sources of an answer are one citation per retrieved chunk, in
\* retrieval order; citation i reads "Reference i", then the page plus one
\* when the metadata has a page, else the last segment of the source path
\* when there is one, then the chunk text, cut to its first 100 characters
\* and an ellipsis when it is longer.
OneCitationPerChunk ==
    (qa.state = "answered" /\ ~qa.raised /\ qa.out.hasSources) =>
        /\ Len(qa.sources) = Len(qa.out.docs)
        /\ \A i \in 1..Len(qa.out.docs) :
              LET text    == qa.out.docs[i].page_content
                  meta    == qa.out.docs[i].metadata
                  preview == IF Len(text) <= 100 THEN text
                             ELSE SubSeq(text, 1, 100) \o <<"...">>
                  label   == IF "page" \in meta.keys
                             THEN <<" (Page ">> \o Str(meta.page + 1) \o <<")">>
                             ELSE IF "source" \in meta.keys /\ meta.source # <<>>
                             THEN <<" (Source: ", meta.source[Len(meta.source)], ")">>
                             ELSE <<>>
              IN  qa.sources[i] = <<"Reference ">> \o Str(i) \o label \o <<": ">> \o preview

\* Two chunks were cited: a short one by its file, a long one by its page.
LongChunkCitedByPage ==
    /\ qa.state = "answered"
    /\ Len(qa.sources) = 2
    /\ Len(qa.out.docs[2].page_content) > 100
    /\ qa.sources[1] = <<"Reference ", "1", " (Source: ", "lecture.pdf", ")", ": ", "a">>
    /\ qa.sources[2] =
          <<"Reference ", "2", " (Page ", "1", "2", ")", ": ">> \o Repeat("a", 100) \o <<"...">>

-----------------------------------------------------------------------------
(* Properties of SpecPar *)

\* C16: calls on different topics do not touch each other under any
\* interleaving of their steps: a step of a call on one topic, whether the
\* call succeeds or fails, leaves the index of every other topic as it was,
\* and the index of each topic is at every moment what it is when only the
\* calls on that topic are run.
TopicsIndependent ==
    [][ /\ \A w \in Workers : workers'[w] # workers[w] =>
              \A t \in Topics \ {workers'[w].topic} : index'[t] = index[t]
        /\ \A t \in Topics : index'[t] = solo'[t]
      ]_vars

\* A create on T1 failed in its second batch and cleaned up, while an upload
\* to T2 that ran beside it embedded all its chunks.
FailedCreateBesideUpload ==
    /\ \A w \in Workers : workers[w].pc = "done"
    /\ workers["w1"].topic = "T1"
    /\ workers["w1"].outcome = "CreateFailed"
    /\ ~index["T1"].exists
    /\ workers["w2"].topic = "T2"
    /\ workers["w2"].outcome = "ok"
    /\ index["T2"].vecs["F2"] = batch_size + 1

\* C26: when two index-building calls on the same topic have both returned,
\* one a create that failed and cleaned up, the other successful, the chunks
\* of the successful call are still in an existing index.
CleanupSparesTheOtherCall ==
    \A w \in Workers : \A v \in Workers \ {w} :
        ( /\ calls = 2
          /\ workers[w].pc = "done" /\ workers[v].pc = "done"
          /\ workers[w].topic = workers[v].topic
          /\ workers[w].op = "create" /\ workers[w].outcome = "CreateFailed"
          /\ workers[v].op \in {"create", "update"} /\ workers[v].outcome = "ok" ) =>
            /\ index[workers[v].topic].exists
            /\ index[workers[v].topic].vecs[workers[v].src] > 0

\* C25: when two ingestions of the same bytes into the same topic have both
\* returned, whatever the order of their steps, the topic holds at most one
\* processed Document of the file and its chunks are in the index at most
\* once.
OneOfTwoIdenticalUploads ==
    ( /\ calls = 2
      /\ \A w \in Workers : workers[w].pc = "done" /\ workers[w].op = "ingest"
      /\ workers["w1"].topic = workers["w2"].topic ) =>
        LET t == workers["w1"].topic
        IN  /\ Cardinality({d \in Processed(documents, t) :
                               d.file_hash = calculate_file_hash(IngestedFile)}) <= 1
            /\ index[t].vecs[IngestedFile] <= extract_and_hash_content(IngestedFile).n

-----------------------------------------------------------------------------
(* Properties of SpecSession *)

\* What a session holds: its row, its messages with their ratings, its
\* attachment files.
SessionData(ss, msgs, att, s) ==
    <<get_chat_session_by_id(ss, s), InSession(msgs, s), {a \in att : a.session = s}>>

\* The step answered a request on a session route (a turn's reply names no
\* route: it is the caller's).
RouteAnswered(op) == "op" \in DOMAIN reply' /\ reply'.op = op

\* C29: a request by a user who does not own the session is refused and
\* changes no session, message, rating or attachment file; whatever a
\* request does, the sessions its sender does not own stay as they were.
NonOwnerChangesNothing ==
    [][ LET actor == IF "by" \in DOMAIN reply' THEN reply'.by ELSE Caller
        IN  /\ \A s \in DOMAIN sessions :
                  sessions[s].user_id # actor =>
                      SessionData(sessions', messages', attachments', s)
                          = SessionData(sessions, messages, attachments, s)
            /\ ( /\ "by" \in DOMAIN reply'
                 /\ reply'.session \in DOMAIN sessions
                 /\ sessions[reply'.session].user_id # reply'.by ) =>
                  /\ reply'.status \in {"400", "403"}
                  /\ "body" \notin DOMAIN reply'
                  /\ UNCHANGED <<sessions, messages, attachments>>
            /\ reply'.status = "403" => UNCHANGED <<sessions, messages, attachments>>
      ]_vars

\* The other user asked to delete S2, which holds a turn with an attachment
\* and a rated answer: refused, and S2 is still there.
NonOwnerDeleteRefused ==
    /\ "op" \in DOMAIN reply
    /\ reply.op = "delete" /\ reply.by = "u2" /\ reply.session = "S2"
    /\ reply.status = "403"
    /\ "S2" \in DOMAIN sessions
    /\ \E a \in attachments : a.session = "S2"
    /\ \E i \in 1..Len(messages) :
          messages[i].session_id = "S2" /\ messages[i].rating = "positive"

\* Every row with a rating is an assistant row rated 'positive' or 'negative'.
RatingsWellFormed(msgs) ==
    \A i \in 1..Len(msgs) :
        msgs[i].rating # "None" =>
            msgs[i].sender = "assistant" /\ msgs[i].rating \in {"positive", "negative"}

\* C30 as stated: ratings are well formed, and a rating request on a user
\* message or with a value other than 'positive' and 'negative' is refused
\* and changes no message.
OtherRatingValuesRefused ==
    [][ /\ RatingsWellFormed(messages')
        /\ ( /\ RouteAnswered("rate")
             /\ \/ get_message_by_id(messages, reply'.id).sender = "user"
                \/ reply'.rating \notin {"positive", "negative"} ) =>
              (reply'.status # "200" /\ messages' = messages)
      ]_vars

\* C30: ratings are well formed; a rating request on a user message, or with
\* a value other than 'positive', 'negative' and null, is refused and changes
\* no message; an accepted request sets the rating of its message, null
\* clearing it, and touches no other row.
OnlyAssistantMessagesRated ==
    [][ /\ RatingsWellFormed(messages')
        /\ ( /\ RouteAnswered("rate")
             /\ \/ get_message_by_id(messages, reply'.id).sender = "user"
                \/ reply'.rating \notin {"positive", "negative", "None"} ) =>
              (reply'.status # "200" /\ messages' = messages)
        /\ (RouteAnswered("rate") /\ reply'.status = "200") =>
              /\ Len(messages') = Len(messages)
              /\ \A i \in 1..Len(messages) :
                    messages'[i] = IF messages[i].id = reply'.id
                                   THEN [messages[i] EXCEPT !.rating = reply'.rating]
                                   ELSE messages[i]
      ]_vars

\* A rating sent for a user message is refused, beside an answer whose owner
\* has changed its rating to 'negative'.
UserMessageRatingRefused ==
    /\ "op" \in DOMAIN reply
    /\ reply.op = "rate" /\ reply.status = "400" /\ reply.rating = "positive"
    /\ get_message_by_id(messages, reply.id).sender = "user"
    /\ \E i \in 1..Len(messages) : messages[i].rating = "negative"

====
